---- MODULE Spec2Model ----
(***************************************************************************)
(* AnimatedCharacter (src/animated-character.js): the animation registry,  *)
(* the recorded (currentAnimation, currentDirection) pair and the          *)
(* PIXI.AnimatedSprite host the class extends.                             *)
(*                                                                         *)
(* JavaScript objects with insertion-ordered keys are sequences of         *)
(* [key, val] records.  Speeds are in hundredths (0.15 is 15).  A handler  *)
(* that throws keeps every assignment it made before the throw.            *)
(***************************************************************************)
EXTENDS Integers, Sequences, FiniteSets, TLC

VARIABLES animations, currentAnimation, currentDirection, visible,
          textures, animationSpeed, currentTime, playing, lastCall,
          pc, animationConfigs, factoryArgs, requested, responses, loadResults,
          sliceArgs, sliceResult

\* CreateCharacterWithManyAnimations: where it stands, its arguments, the
\* image requests it has issued, the provider's answers and its loadResults
factoryVars == <<pc, animationConfigs, factoryArgs, requested, responses,
                 loadResults>>

\* one call of TextureFactory.createFrameTextures: arguments and return value
slicerVars == <<sliceArgs, sliceResult>>

vars == <<animations, currentAnimation, currentDirection, visible,
          textures, animationSpeed, currentTime, playing, lastCall,
          factoryVars, slicerVars>>

\* the controller's own fields and the host's fields, without the call record
stateVars == <<animations, currentAnimation, currentDirection, visible,
               textures, animationSpeed, currentTime, playing>>

hostVars == <<visible, textures, animationSpeed, currentTime, playing>>

(*************************** bounds and constants **************************)

\* longest frame sequence a registered direction holds
MaxLen == 3

FrameW == 64
FrameH == 64
DefaultSpeed == 15
HostDefaultSpeed == 100

NULL == "null"
UNDEFINED == "undefined"
\* Number.NaN: the frame index the host reports while it holds no frame
NaN == 0 - 1

Names == {"run", "hurt"}
UnknownName == "nonexistent"
\* the names changeAnimation is called with
CallNames == Names \cup {UnknownName}
DirectionArgs == {NULL, "up", "down", "left"}

(************************ insertion-ordered objects ************************)

Keys(m) == [i \in 1..Len(m) |-> m[i].key]

HasKey(m, k) == \E i \in 1..Len(m) : m[i].key = k

Get(m, k) == m[CHOOSE i \in 1..Len(m) : m[i].key = k].val

\* obj[k] = v: a known key keeps its place, a new key goes last
Put(m, k, v) ==
  IF HasKey(m, k)
  THEN [i \in 1..Len(m) |-> IF m[i].key = k THEN [key |-> k, val |-> v] ELSE m[i]]
  ELSE Append(m, [key |-> k, val |-> v])

\* Object.keys(m)[0]
FirstKey(m) == IF Len(m) = 0 THEN UNDEFINED ELSE m[1].key

\* m[k] as an optional value: <<v>> when k is a key, <<>> for undefined
Lookup(m, k) == IF HasKey(m, k) THEN <<Get(m, k)>> ELSE <<>>

(******************************** textures *********************************)

EMPTY == [source |-> "EMPTY", x |-> 0, y |-> 0, width |-> 1, height |-> 1]

Texture(source, column, row) ==
  [source |-> source, x |-> column * FrameW, y |-> row * FrameH,
   width |-> FrameW, height |-> FrameH]

\* the frames of one row of a sheet, in column order
Row(source, row, n) == [c \in 1..n |-> Texture(source, c - 1, row)]

(***************** TextureFactory.createFrameTextures ***********************)

\* a slicer that counts columns from one
FrameTexture_OneBased(baseTexture, i, rowIndex, frameWidth, frameHeight) ==
  [source |-> baseTexture.source, x |-> (i + 1) * frameWidth,
   y |-> rowIndex * frameHeight, width |-> frameWidth, height |-> frameHeight]

\* lines 416-429: the texture of one frame, its rectangle on the sheet
FrameTexture(baseTexture, i, rowIndex, frameWidth, frameHeight) ==
  [source |-> baseTexture.source, x |-> i * frameWidth, y |-> rowIndex * frameHeight,
   width |-> frameWidth, height |-> frameHeight]

\* directions[rowIndex]: undefined past the end of the array, and undefined
\* as a property key is the string "undefined"
LabelOfRow(directions, rowIndex) ==
  IF rowIndex < Len(directions) THEN directions[rowIndex + 1] ELSE UNDEFINED

\* a slicer that walks a row from its last column to its first
SliceRow_RightToLeft(textureData, baseTexture, rowIndex, frameCount, frameWidth, frameHeight, directions) ==
  Put(textureData, LabelOfRow(directions, rowIndex),
      [c \in 1..frameCount |->
         FrameTexture(baseTexture, frameCount - c, rowIndex, frameWidth, frameHeight)])

\* lines 409-433: one pass of the outer loop; textureData[direction] = []
\* and then one push per column
SliceRow(textureData, baseTexture, rowIndex, frameCount, frameWidth, frameHeight, directions) ==
  Put(textureData, LabelOfRow(directions, rowIndex),
      [c \in 1..frameCount |->
         FrameTexture(baseTexture, c - 1, rowIndex, frameWidth, frameHeight)])

\* lines 407-434: the outer loop from rowIndex up to rowCount - 1
RECURSIVE SliceRows(_, _, _, _, _, _, _, _)
SliceRows(textureData, baseTexture, rowIndex, rowCount, frameCount, frameWidth, frameHeight, directions) ==
  IF rowIndex < rowCount
  THEN SliceRows(SliceRow(textureData, baseTexture, rowIndex, frameCount,
                          frameWidth, frameHeight, directions),
                 baseTexture, rowIndex + 1, rowCount, frameCount, frameWidth,
                 frameHeight, directions)
  ELSE textureData

\* a slicer that reports the number of rows as the frame count
createFrameTextures_CountsRows(baseTexture, frameWidth, frameHeight, directions) ==
  LET frameCount == baseTexture.width \div frameWidth
      rowCount == baseTexture.height \div frameHeight
  IN  [textureData |-> SliceRows(<<>>, baseTexture, 0, rowCount, frameCount,
                                 frameWidth, frameHeight, directions),
       frameCount |-> rowCount]

\* lines 383-442
createFrameTextures(baseTexture, frameWidth, frameHeight, directions) ==
  LET frameCount == baseTexture.width \div frameWidth
      rowCount == baseTexture.height \div frameHeight
  IN  [textureData |-> SliceRows(<<>>, baseTexture, 0, rowCount, frameCount,
                                 frameWidth, frameHeight, directions),
       frameCount |-> frameCount]

\* Math.min, with NaN absorbing
MathMin(a, b) == IF a = NaN \/ b = NaN THEN NaN ELSE IF a < b THEN a ELSE b

(********************** the host: PIXI.AnimatedSprite **********************)
(* The class extends the AnimatedSprite of pixi.js 8 (line 29; the page     *)
(* loads pixi.js@8.0.0).  Of the host the model keeps what the class calls: *)
(* the textures setter stores the array and does gotoAndStop(0); the        *)
(* currentFrame setter throws for an index outside 0..totalFrames-1;        *)
(* currentFrame is floor(_currentTime) % textures.length, NaN for no frame. *)
(* Names are non-empty strings, so !this.currentAnimation tests for null.   *)
(***************************************************************************)

Return(self) == [self |-> self, error |-> "none"]
Throw(self, e) == [self |-> self, error |-> e]

Called(self, what) == [self EXCEPT !.locals.calls = Append(@, what)]

\* get currentFrame: floor(_currentTime) % textures.length
hostCurrentFrame(self) ==
  IF self.currentTime = NaN \/ Len(self.textures) = 0
  THEN NaN
  ELSE self.currentTime % Len(self.textures)

\* set currentFrame: rejects an index outside 0..totalFrames-1
setCurrentFrame(self, value) ==
  IF value # NaN /\ (value < 0 \/ value > Len(self.textures) - 1)
  THEN Throw(self, "Error")
  ELSE Return([self EXCEPT !.currentTime = value])

hostStop(self) == [self EXCEPT !.playing = FALSE]

hostPlay(self) == [self EXCEPT !.playing = TRUE]

gotoAndStop(self, frameNumber) ==
  setCurrentFrame(hostStop(Called(self, "gotoAndStop")), frameNumber)

gotoAndPlay(self, frameNumber) ==
  LET r == setCurrentFrame(Called(self, "gotoAndPlay"), frameNumber)
  IN  IF r.error # "none" THEN r ELSE Return(hostPlay(r.self))

\* set textures: value is optional (<<>> is undefined); reading value[0] of
\* undefined throws before anything is stored, then the new array is stored
\* and the host does gotoAndStop(0)
setTextures(self, value) ==
  IF value = <<>>
  THEN Throw(Called(self, "textures"), "TypeError")
  ELSE LET s == [Called(self, "textures") EXCEPT !.textures = value[1]]
       IN  setCurrentFrame(hostStop(s), 0)

setAnimationSpeed(self, speed) ==
  [Called(self, "animationSpeed") EXCEPT !.animationSpeed = speed]

(************************* AnimatedCharacter *******************************)

\* lines 203-216: the omitted direction, then the fallback
resolveDirection(self, entry, direction) ==
  LET d == IF direction = NULL THEN self.currentDirection ELSE direction
  IN  IF ~HasKey(entry.textures, d) THEN FirstKey(entry.textures) ELSE d

\* a transition that never short-circuits
isRealChange_Always(self, animationName, direction) == TRUE

\* lines 221-224
isRealChange(self, animationName, direction) ==
  self.currentAnimation # animationName \/ self.currentDirection # direction

\* a transition that restarts the new sequence
targetFrameOf_Restart(currentFrame, newAnimationFrameCount) == 0

\* line 244
targetFrameOf(currentFrame, newAnimationFrameCount) ==
  MathMin(currentFrame, newAnimationFrameCount - 1)

\* lines 249-254
seek(self, wasPlaying, targetFrame) ==
  IF wasPlaying THEN gotoAndPlay(self, targetFrame)
  ELSE gotoAndStop(self, targetFrame)

\* a rejection that has already recorded the requested name
rejectUnknown_Recorded(self, animationName) ==
  Return([self EXCEPT !.locals.path = "unknown", !.currentAnimation = animationName])

\* lines 199-200
rejectUnknown(self, animationName) ==
  Return([self EXCEPT !.locals.path = "unknown"])

\* a swap that leaves the host's speed as it was
swapFrames_KeepsSpeed(self, animationName, direction) ==
  LET entry == Get(self.animations, animationName)
      wasPlaying == self.playing
      currentFrame == hostCurrentFrame(self)
      s0 == [self EXCEPT !.locals.path = "threw",
                         !.locals.wasPlaying = wasPlaying,
                         !.locals.currentFrame = currentFrame]
      r1 == setTextures(s0, Lookup(entry.textures, direction))
  IN  IF r1.error # "none" THEN r1
      ELSE LET newAnimationFrameCount == Len(Get(entry.textures, direction))
               targetFrame == targetFrameOf(currentFrame, newAnimationFrameCount)
               r3 == seek(r1.self, wasPlaying, targetFrame)
           IN  IF r3.error # "none" THEN r3
               ELSE Return([r3.self EXCEPT !.currentAnimation = animationName,
                                           !.currentDirection = direction,
                                           !.locals.path = "changed"])

\* lines 225-260
swapFrames(self, animationName, direction) ==
  LET entry == Get(self.animations, animationName)
      wasPlaying == self.playing
      currentFrame == hostCurrentFrame(self)
      s0 == [self EXCEPT !.locals.path = "threw",
                         !.locals.wasPlaying = wasPlaying,
                         !.locals.currentFrame = currentFrame]
      r1 == setTextures(s0, Lookup(entry.textures, direction))
  IN  IF r1.error # "none" THEN r1
      ELSE LET s2 == setAnimationSpeed(r1.self, entry.speed)
               newAnimationFrameCount == Len(Get(entry.textures, direction))
               targetFrame == targetFrameOf(currentFrame, newAnimationFrameCount)
               r3 == seek(s2, wasPlaying, targetFrame)
           IN  IF r3.error # "none" THEN r3
               ELSE Return([r3.self EXCEPT !.currentAnimation = animationName,
                                           !.currentDirection = direction,
                                           !.locals.path = "changed"])

\* a transition that registers a name it does not know
changeAnimation_RegistersUnknown(self, animationName, direction) ==
  IF ~HasKey(self.animations, animationName)
  THEN Return([self EXCEPT !.locals.path = "unknown",
                           !.animations = Put(@, animationName,
                                              [textures |-> <<>>, frameCount |-> 0,
                                               speed |-> DefaultSpeed,
                                               directions |-> <<>>])])
  ELSE LET entry == Get(self.animations, animationName)
           resolved == resolveDirection(self, entry, direction)
           s == [self EXCEPT !.locals.resolved = resolved]
       IN  IF isRealChange(s, animationName, resolved)
           THEN swapFrames(s, animationName, resolved)
           ELSE Return([s EXCEPT !.locals.path = "noop"])

\* lines 194-264
changeAnimation(self, animationName, direction) ==
  IF ~HasKey(self.animations, animationName)
  THEN rejectUnknown(self, animationName)
  ELSE LET entry == Get(self.animations, animationName)
           resolved == resolveDirection(self, entry, direction)
           s == [self EXCEPT !.locals.resolved = resolved]
       IN  IF isRealChange(s, animationName, resolved)
           THEN swapFrames(s, animationName, resolved)
           ELSE Return([s EXCEPT !.locals.path = "noop"])

\* a direction change that drops its argument
changeDirection_KeepsFacing(self, direction) ==
  IF self.currentAnimation # NULL
  THEN changeAnimation(self, self.currentAnimation, NULL)
  ELSE Return([self EXCEPT !.locals.path = "inactive"])

\* lines 275-280
changeDirection(self, direction) ==
  IF self.currentAnimation # NULL
  THEN changeAnimation(self, self.currentAnimation, direction)
  ELSE Return([self EXCEPT !.locals.path = "inactive"])

\* an omitted speed that keeps the host's own default
speedOrDefault_HostDefault(speed) ==
  IF speed = <<>> THEN HostDefaultSpeed ELSE speed[1]

\* line 161: speed = 0.15 when the argument is omitted or undefined
speedOrDefault(speed) == IF speed = <<>> THEN DefaultSpeed ELSE speed[1]

\* a registration that always switches to the new entry
addAnimation_AlwaysSwitches(self, name, textureData, frameCount, speed) ==
  LET entry == [textures |-> textureData,
                frameCount |-> frameCount,
                speed |-> speedOrDefault(speed),
                directions |-> Keys(textureData)]
      s == [self EXCEPT !.animations = Put(@, name, entry)]
  IN  changeAnimation([s EXCEPT !.visible = TRUE], name, s.currentDirection)

\* lines 161-178; speed is the optional trailing argument (<<>> when omitted)
addAnimation(self, name, textureData, frameCount, speed) ==
  LET entry == [textures |-> textureData,
                frameCount |-> frameCount,
                speed |-> speedOrDefault(speed),
                directions |-> Keys(textureData)]
      s == [self EXCEPT !.animations = Put(@, name, entry)]
  IN  IF s.currentAnimation = NULL
      THEN changeAnimation([s EXCEPT !.visible = TRUE], name, s.currentDirection)
      ELSE Return([s EXCEPT !.locals.path = "registered"])

\* lines 304-307
pause(self) == Return(hostStop(Called(self, "stop")))

\* lines 317-320
play(self) == Return(hostPlay(Called(self, "play")))

\* lines 330-332
getAvailableAnimations(self) == Keys(self.animations)

\* a query that lists the registry's names instead
getAvailableDirections_Names(self, animationName) == Keys(self.animations)

\* lines 343-348
getAvailableDirections(self, animationName) ==
  IF HasKey(self.animations, animationName)
  THEN Get(self.animations, animationName).directions
  ELSE <<>>

(****************************** the state **********************************)

NoLocals ==
  [calls |-> <<>>, path |-> "none", resolved |-> NULL,
   wasPlaying |-> FALSE, currentFrame |-> 0]

\* the object a handler starts on
Self ==
  [animations |-> animations, currentAnimation |-> currentAnimation,
   currentDirection |-> currentDirection, visible |-> visible,
   textures |-> textures, animationSpeed |-> animationSpeed,
   currentTime |-> currentTime, playing |-> playing, locals |-> NoLocals]

\* the record of a call: its arguments, its error and the handler's locals
CallRecord(r, op, name, direction) ==
  [op |-> op, name |-> name, direction |-> direction,
   error |-> r.error, locals |-> r.self.locals]

\* the object a handler leaves
Leave(r) ==
  /\ animations' = r.self.animations
  /\ currentAnimation' = r.self.currentAnimation
  /\ currentDirection' = r.self.currentDirection
  /\ visible' = r.self.visible
  /\ textures' = r.self.textures
  /\ animationSpeed' = r.self.animationSpeed
  /\ currentTime' = r.self.currentTime
  /\ playing' = r.self.playing

\* what callers register: no direction at all, the one direction down with
\* no frame or with MaxLen - 1 frames, and a sheet with the rows up and down
InputPool ==
  {[textureData |-> <<>>, frameCount |-> 0, speed |-> <<>>]}
  \cup {[textureData |-> <<[key |-> "down", val |-> Row("one", 0, n)]>>,
         frameCount |-> n, speed |-> <<>>] : n \in {0, MaxLen - 1}}
  \cup {[textureData |-> <<[key |-> "up", val |-> Row("two", 0, MaxLen)],
                           [key |-> "down", val |-> Row("two", 1, MaxLen)]>>,
         frameCount |-> MaxLen, speed |-> <<10>>]}

\* no factory call is running
NoFactory ==
  /\ pc = "none"
  /\ animationConfigs = <<>>
  /\ factoryArgs = [frameW |-> FrameW, frameH |-> FrameH, directions |-> <<>>]
  /\ requested = <<>>
  /\ responses = <<>>
  /\ loadResults = [successful |-> <<>>, failed |-> <<>>, total |-> 0]

\* no slicer call is observed
NoSlicer ==
  /\ sliceArgs = [baseTexture |-> [source |-> "none", width |-> 0, height |-> 0],
                  frameWidth |-> FrameW, frameHeight |-> FrameH,
                  directions |-> <<>>]
  /\ sliceResult = <<>>

\* a constructor that leaves the host shown
Constructed_Visible ==
  /\ animations = <<>>
  /\ currentAnimation = NULL
  /\ currentDirection = "down"
  /\ visible = TRUE
  /\ textures = <<EMPTY>>
  /\ animationSpeed = HostDefaultSpeed
  /\ currentTime = 0
  /\ playing = TRUE
  /\ lastCall = [op |-> "new", name |-> NULL, direction |-> NULL,
                 error |-> "none", locals |-> NoLocals]

\* lines 34-64: the constructor
Constructed ==
  /\ animations = <<>>
  /\ currentAnimation = NULL
  /\ currentDirection = "down"
  /\ visible = FALSE
  /\ textures = <<EMPTY>>
  /\ animationSpeed = HostDefaultSpeed
  /\ currentTime = 0
  /\ playing = TRUE
  /\ lastCall = [op |-> "new", name |-> NULL, direction |-> NULL,
                 error |-> "none", locals |-> NoLocals]

\* a controller made with new AnimatedCharacter() and used directly
Init == Constructed /\ NoFactory /\ NoSlicer

AddAnimation(name, input) ==
  LET r == addAnimation(Self, name, input.textureData, input.frameCount, input.speed)
  IN  /\ Leave(r)
      /\ lastCall' = CallRecord(r, "addAnimation", name, NULL)
      /\ UNCHANGED <<factoryVars, slicerVars>>

ChangeAnimation(name, direction) ==
  LET r == changeAnimation(Self, name, direction)
  IN  /\ Leave(r)
      /\ lastCall' = CallRecord(r, "changeAnimation", name, direction)
      /\ UNCHANGED <<factoryVars, slicerVars>>

ChangeDirection(direction) ==
  LET r == changeDirection(Self, direction)
  IN  /\ Leave(r)
      /\ lastCall' = CallRecord(r, "changeDirection", NULL, direction)
      /\ UNCHANGED <<factoryVars, slicerVars>>

Pause ==
  LET r == pause(Self)
  IN  /\ Leave(r)
      /\ lastCall' = CallRecord(r, "pause", NULL, NULL)
      /\ UNCHANGED <<factoryVars, slicerVars>>

Play ==
  LET r == play(Self)
  IN  /\ Leave(r)
      /\ lastCall' = CallRecord(r, "play", NULL, NULL)
      /\ UNCHANGED <<factoryVars, slicerVars>>

\* a query: nothing is assigned, the call record keeps what it returned
GetAvailableDirections(animationName) ==
  /\ lastCall' = [op |-> "getAvailableDirections", name |-> animationName,
                  direction |-> NULL, error |-> "none", locals |-> NoLocals,
                  returned |-> getAvailableDirections(Self, animationName)]
  /\ UNCHANGED <<stateVars, factoryVars, slicerVars>>

\* a query: nothing is assigned, the call record keeps what it returned
GetAvailableAnimations ==
  /\ lastCall' = [op |-> "getAvailableAnimations", name |-> NULL,
                  direction |-> NULL, error |-> "none", locals |-> NoLocals,
                  returned |-> getAvailableAnimations(Self)]
  /\ UNCHANGED <<stateVars, factoryVars, slicerVars>>

\* the host's render clock: one frame further, looping
Tick ==
  /\ playing
  /\ hostCurrentFrame(Self) # NaN
  /\ currentTime' = (currentTime + 1) % Len(textures)
  /\ UNCHANGED <<animations, currentAnimation, currentDirection, visible,
                 textures, animationSpeed, playing, lastCall>>
  /\ UNCHANGED <<factoryVars, slicerVars>>

\* one call of the controller's interface
Call ==
  \/ \E name \in Names, input \in InputPool : AddAnimation(name, input)
  \/ \E name \in CallNames, direction \in DirectionArgs :
       ChangeAnimation(name, direction)
  \/ \E direction \in DirectionArgs : ChangeDirection(direction)
  \/ Pause
  \/ Play
  \/ \E name \in CallNames : GetAvailableDirections(name)
  \/ GetAvailableAnimations

Next == Call \/ Tick

Spec == Init /\ [][Next]_vars

(************************* the slicer on its own ***************************)

\* frame sides and image sides, in pixels
MaxFrameSide == 2
MaxImageSide == 5

StandardDirections == <<"up", "left", "down", "right">>

\* label lists: none, one, two, the four of the page, and a repeated label
DirectionLists ==
  {<<>>, <<"down">>, <<"up", "down">>, StandardDirections, <<"up", "up">>}

SliceInputs ==
  [baseTexture : [source : {"sheet"}, width : 0..MaxImageSide,
                  height : 0..MaxImageSide],
   frameWidth : 1..MaxFrameSide, frameHeight : 1..MaxFrameSide,
   directions : DirectionLists]

SlicerInit ==
  /\ Constructed /\ NoFactory
  /\ sliceArgs \in SliceInputs
  /\ sliceResult = <<>>

\* one call of createFrameTextures; sliceResult holds what it returned
Slice ==
  /\ sliceResult = <<>>
  /\ sliceResult' = <<createFrameTextures(sliceArgs.baseTexture, sliceArgs.frameWidth,
                                          sliceArgs.frameHeight, sliceArgs.directions)>>
  /\ UNCHANGED <<stateVars, lastCall, factoryVars, sliceArgs>>

SlicerNext == Slice

SlicerSpec == SlicerInit /\ [][SlicerNext]_vars

(******************* CreateCharacterWithManyAnimations *********************)

\* the sheets the provider can answer with for one name, against frames of
\* FrameW by FrameH: four full rows, a sheet narrower than a frame, a sheet
\* lower than a frame, and one row with some pixels left over
ImagePool(name) ==
  {[source |-> name, width |-> MaxLen * FrameW, height |-> 4 * FrameH],
   [source |-> name, width |-> FrameW \div 2, height |-> 4 * FrameH],
   [source |-> name, width |-> MaxLen * FrameW, height |-> FrameH \div 2],
   [source |-> name, width |-> (MaxLen - 1) * FrameW + 1, height |-> FrameH + 1]}

\* configuration objects: none, one and two names in either order; 'run'
\* names its speed and 'hurt' leaves it out
ConfigOf(name) == [speed |-> IF name = "run" THEN <<10>> ELSE <<>>]

ConfigPool ==
  {<<>>} \cup {<<[key |-> n, val |-> ConfigOf(n)]>> : n \in Names}
         \cup {<<[key |-> n, val |-> ConfigOf(n)], [key |-> m, val |-> ConfigOf(m)]>> :
                  <<n, m>> \in {<<"run", "hurt">>, <<"hurt", "run">>}}

\* lines 88-96: the controller is built and loadResults starts with total
FactoryInit ==
  /\ Constructed /\ NoSlicer
  /\ pc = "loop"
  /\ animationConfigs \in ConfigPool
  /\ factoryArgs \in [frameW : {FrameW}, frameH : {FrameH},
                       directions : {StandardDirections, <<"down">>}]
  /\ requested = <<>>
  /\ responses = <<>>
  /\ loadResults = [successful |-> <<>>, failed |-> <<>>,
                    total |-> Len(Keys(animationConfigs))]

\* the entry the loop is at: Object.entries order
animName == animationConfigs[Len(requested)].key
config == animationConfigs[Len(requested)].val

\* a catch block that forgets the failure
recordFailure_Dropped(results, name, error) == results

\* line 125: loadResults.failed.push({ name, error: error.message })
recordFailure(results, name, error) ==
  [results EXCEPT !.failed = Append(@, [name |-> name, error |-> error])]

\* a success list that grows at its front
recordSuccess_Prepends(results, name) ==
  [results EXCEPT !.successful = <<name>> \o @]

\* line 121: loadResults.successful.push(animName)
recordSuccess(results, name) == [results EXCEPT !.successful = Append(@, name)]

\* a handler that lets an error of the iteration leave the factory
afterIteration_Rethrow(error) == IF error = "none" THEN "loop" ELSE "threw"

\* lines 123-128: the catch block ends the iteration; the loop goes on
afterIteration(error) == "loop"

\* a loop that asks for the next image without awaiting the pending one
Request_Eager ==
  /\ pc \in {"loop", "awaiting"}
  /\ Len(requested) < Len(animationConfigs)
  /\ requested' = Append(requested, animationConfigs[Len(requested) + 1].key)
  /\ pc' = "awaiting"
  /\ UNCHANGED <<stateVars, lastCall, animationConfigs, factoryArgs, responses,
                 loadResults, slicerVars>>

\* lines 98-101: the loop takes the next entry and asks for its image
Request ==
  /\ pc = "loop"
  /\ Len(requested) < Len(animationConfigs)
  /\ requested' = Append(requested, animationConfigs[Len(requested) + 1].key)
  /\ pc' = "awaiting"
  /\ UNCHANGED <<stateVars, lastCall, animationConfigs, factoryArgs, responses,
                 loadResults, slicerVars>>

\* lines 101-127: the image arrives, is sliced and registered; an error of
\* addAnimation is caught and recorded
LoadSucceeds ==
  /\ pc = "awaiting"
  /\ \E texture \in ImagePool(animName) :
       LET result == createFrameTextures(texture, factoryArgs.frameW,
                                         factoryArgs.frameH, factoryArgs.directions)
           r == addAnimation(Self, animName, result.textureData, result.frameCount,
                             config.speed)
       IN  /\ Leave(r)
           /\ lastCall' = CallRecord(r, "addAnimation", animName, NULL)
           /\ sliceArgs' = [baseTexture |-> texture,
                            frameWidth |-> factoryArgs.frameW,
                            frameHeight |-> factoryArgs.frameH,
                            directions |-> factoryArgs.directions]
           /\ sliceResult' = <<result>>
           /\ responses' = Append(responses, [name |-> animName, loaded |-> TRUE])
           /\ loadResults' =
                IF r.error = "none"
                THEN recordSuccess(loadResults, animName)
                ELSE recordFailure(loadResults, animName, r.error)
           /\ pc' = afterIteration(r.error)
  /\ UNCHANGED <<animationConfigs, factoryArgs, requested>>

\* lines 101, 123-127: the request is rejected
LoadFails ==
  /\ pc = "awaiting"
  /\ responses' = Append(responses, [name |-> animName, loaded |-> FALSE])
  /\ loadResults' = recordFailure(loadResults, animName, "load")
  /\ pc' = afterIteration("load")
  /\ UNCHANGED <<stateVars, lastCall, animationConfigs, factoryArgs, requested,
                 slicerVars>>

\* the provider answers the pending request, one way or the other
Respond == LoadFails \/ LoadSucceeds

\* a factory that gives up at the first failure
FactoryReturn_Early ==
  /\ pc = "loop"
  /\ Len(requested) = Len(animationConfigs) \/ Len(loadResults.failed) > 0
  /\ pc' = "returned"
  /\ UNCHANGED <<stateVars, lastCall, animationConfigs, factoryArgs, requested,
                 responses, loadResults, slicerVars>>

\* lines 130-145: the loop is over; the factory hands out the controller
\* and loadResults
FactoryReturn ==
  /\ pc = "loop"
  /\ Len(requested) = Len(animationConfigs)
  /\ pc' = "returned"
  /\ UNCHANGED <<stateVars, lastCall, animationConfigs, factoryArgs, requested,
                 responses, loadResults, slicerVars>>

FactoryNext == Request \/ LoadSucceeds \/ LoadFails \/ FactoryReturn \/ Tick

FactorySpec == FactoryInit /\ [][FactoryNext]_vars

\* every request is answered and the factory's own steps are taken
FairFactorySpec ==
  FactorySpec /\ WF_vars(Request) /\ WF_vars(Respond) /\ WF_vars(FactoryReturn)

(******************* the page: factory, then the controls ******************)

\* lines 561-578 of the page: an arrow key turns the character
KeyDown ==
  /\ pc = "returned"
  /\ \E direction \in DirectionArgs \ {NULL} : ChangeDirection(direction)

\* lines 597 and 604-607 of the page: a button or the console switches the
\* animation, with or without a direction
Command ==
  /\ pc = "returned"
  /\ \E name \in CallNames, direction \in DirectionArgs :
       ChangeAnimation(name, direction)

SessionNext == FactoryNext \/ KeyDown \/ Command

\* the character is built by the factory and then driven by the page
SessionSpec == FactoryInit /\ [][SessionNext]_vars

(************** changeAnimation, one statement at a time *******************)

\* In TransitionSpec lastCall is the call that is running: its parameters
\* (direction is reassigned by lines 205 and 215), its locals, the statement
\* it stands at, the statements it has executed, the direction it was asked
\* for and the controller as the call found it.

\* the entry addAnimation stores for an input
EntryOf(input) ==
  [textures |-> input.textureData, frameCount |-> input.frameCount,
   speed |-> speedOrDefault(input.speed), directions |-> Keys(input.textureData)]

\* registries of two names: 'run' with two directions, 'hurt' with one
\* direction of a shorter or of an empty sequence
TransitionRegistries ==
  {<<[key |-> "run", val |-> EntryOf(run)], [key |-> "hurt", val |-> EntryOf(hurt)]>> :
     run \in {i \in InputPool : Len(i.textureData) = 2},
     hurt \in {i \in InputPool : Len(i.textureData) = 1}}

\* a character that shows a registered pair, and a call about to start
TransitionInit ==
  /\ NoFactory /\ NoSlicer
  /\ animations \in TransitionRegistries
  /\ currentAnimation \in Names
  /\ currentDirection \in {"up", "down"}
  /\ HasKey(Get(animations, currentAnimation).textures, currentDirection)
  /\ textures = Get(Get(animations, currentAnimation).textures, currentDirection)
  /\ Len(textures) > 0
  /\ visible = TRUE
  /\ animationSpeed = Get(animations, currentAnimation).speed
  /\ currentTime \in 0..(Len(textures) - 1)
  /\ playing \in BOOLEAN
  /\ \E animationName \in CallNames, direction \in DirectionArgs :
       lastCall = [op |-> "changeAnimation", name |-> animationName,
                   direction |-> direction, error |-> "none", locals |-> NoLocals,
                   at |-> "validate", done |-> <<>>, targetFrame |-> 0,
                   asked |-> direction, found |-> Self]

\* the running call moves on to statement at, having executed what
Advance(c, what, at) == [c EXCEPT !.done = Append(@, what), !.at = at]

Entry == Get(animations, lastCall.name)

\* lines 198-201
Validate ==
  /\ lastCall.at = "validate"
  /\ lastCall' =
       IF ~HasKey(animations, lastCall.name)
       THEN [Advance(lastCall, "validate", "returned") EXCEPT !.locals.path = "unknown"]
       ELSE Advance(lastCall, "validate", "defaultDirection")
  /\ UNCHANGED <<stateVars, factoryVars, slicerVars>>

\* lines 204-206
DefaultDirection ==
  /\ lastCall.at = "defaultDirection"
  /\ lastCall' =
       [Advance(lastCall, "defaultDirection", "fallback") EXCEPT
          !.direction = IF @ = NULL THEN currentDirection ELSE @]
  /\ UNCHANGED <<stateVars, factoryVars, slicerVars>>

\* lines 211-216
Fallback ==
  /\ lastCall.at = "fallback"
  /\ lastCall' =
       LET d == IF ~HasKey(Entry.textures, lastCall.direction)
                THEN FirstKey(Entry.textures) ELSE lastCall.direction
       IN  [Advance(lastCall, "fallback", "compare") EXCEPT
              !.direction = d, !.locals.resolved = d]
  /\ UNCHANGED <<stateVars, factoryVars, slicerVars>>

\* a comparison that records the new pair at once
Compare_WritesPair ==
  /\ lastCall.at = "compare"
  /\ IF currentAnimation # lastCall.name \/ currentDirection # lastCall.direction
     THEN /\ lastCall' = Advance(lastCall, "compare", "readPlaying")
          /\ currentAnimation' = lastCall.name
          /\ currentDirection' = lastCall.direction
     ELSE /\ lastCall' = [Advance(lastCall, "compare", "returned") EXCEPT
                            !.locals.path = "noop"]
          /\ UNCHANGED <<currentAnimation, currentDirection>>
  /\ UNCHANGED <<animations, hostVars, factoryVars, slicerVars>>

\* lines 221-224
Compare ==
  /\ lastCall.at = "compare"
  /\ lastCall' =
       IF currentAnimation # lastCall.name \/ currentDirection # lastCall.direction
       THEN Advance(lastCall, "compare", "readPlaying")
       ELSE [Advance(lastCall, "compare", "returned") EXCEPT !.locals.path = "noop"]
  /\ UNCHANGED <<stateVars, factoryVars, slicerVars>>

\* line 226
ReadPlaying ==
  /\ lastCall.at = "readPlaying"
  /\ lastCall' = [Advance(lastCall, "readPlaying", "readFrame") EXCEPT
                    !.locals.wasPlaying = playing]
  /\ UNCHANGED <<stateVars, factoryVars, slicerVars>>

\* line 227
ReadFrame ==
  /\ lastCall.at = "readFrame"
  /\ lastCall' = [Advance(lastCall, "readFrame", "setTextures") EXCEPT
                    !.locals.currentFrame = hostCurrentFrame(Self)]
  /\ UNCHANGED <<stateVars, factoryVars, slicerVars>>

\* the controller as the running call sees it
Running == [Self EXCEPT !.locals = lastCall.locals]

\* the running call has made a host call with outcome r
AfterHost(r, what, at) ==
  [Advance(lastCall, what, IF r.error = "none" THEN at ELSE "threw") EXCEPT
     !.locals = [r.self.locals EXCEPT
                   !.path = IF r.error = "none" THEN @ ELSE "threw"],
     !.error = r.error]

\* line 232
SetTextures ==
  /\ lastCall.at = "setTextures"
  /\ LET r == setTextures(Running, Lookup(Entry.textures, lastCall.direction))
     IN  /\ Leave(r)
         /\ lastCall' = AfterHost(r, "setTextures", "setSpeed")
  /\ UNCHANGED <<factoryVars, slicerVars>>

\* line 235
SetSpeed ==
  /\ lastCall.at = "setSpeed"
  /\ LET r == Return(setAnimationSpeed(Running, Entry.speed))
     IN  /\ Leave(r)
         /\ lastCall' = AfterHost(r, "setSpeed", "computeTarget")
  /\ UNCHANGED <<factoryVars, slicerVars>>

\* lines 240-244
ComputeTarget ==
  /\ lastCall.at = "computeTarget"
  /\ lastCall' =
       [Advance(lastCall, "computeTarget", "seek") EXCEPT
          !.targetFrame =
             targetFrameOf(lastCall.locals.currentFrame,
                           Len(Get(Entry.textures, lastCall.direction)))]
  /\ UNCHANGED <<stateVars, factoryVars, slicerVars>>

\* lines 249-254
Seek ==
  /\ lastCall.at = "seek"
  /\ LET r == seek(Running, lastCall.locals.wasPlaying, lastCall.targetFrame)
     IN  /\ Leave(r)
         /\ lastCall' = AfterHost(r, "seek", "writeAnimation")
  /\ UNCHANGED <<factoryVars, slicerVars>>

\* line 259
WriteAnimation ==
  /\ lastCall.at = "writeAnimation"
  /\ currentAnimation' = lastCall.name
  /\ lastCall' = Advance(lastCall, "writeAnimation", "writeDirection")
  /\ UNCHANGED <<animations, currentDirection, hostVars, factoryVars, slicerVars>>

\* lines 260-263
WriteDirection ==
  /\ lastCall.at = "writeDirection"
  /\ currentDirection' = lastCall.direction
  /\ lastCall' = [Advance(lastCall, "writeDirection", "returned") EXCEPT
                    !.locals.path = "changed"]
  /\ UNCHANGED <<animations, currentAnimation, hostVars, factoryVars, slicerVars>>

TransitionNext ==
  \/ Validate \/ DefaultDirection \/ Fallback \/ Compare
  \/ ReadPlaying \/ ReadFrame \/ SetTextures \/ SetSpeed
  \/ ComputeTarget \/ Seek \/ WriteAnimation \/ WriteDirection

TransitionSpec == TransitionInit /\ [][TransitionNext]_vars

(***************************************************************************)
(* What the claims read                                                    *)
(***************************************************************************)

\* the registry's sequence for (name, direction), as an optional value
RegisteredFrames(reg, name, direction) ==
  IF HasKey(reg, name) THEN Lookup(Get(reg, name).textures, direction) ELSE <<>>

\* the animation a step's changeAnimation code was asked for
TargetName == IF lastCall'.op = "changeDirection" THEN currentAnimation ELSE lastCall'.name

\* C1: whenever currentAnimation is non-null it is a key of the registry and
\* currentDirection is a key of that entry's direction mapping.
C1_CurrentPairRegistered ==
  currentAnimation # NULL =>
    /\ HasKey(animations, currentAnimation)
    /\ HasKey(Get(animations, currentAnimation).textures, currentDirection)

\* C2: once currentAnimation is non-null, the frame sequence the host displays
\* is the sequence the registry holds for (currentAnimation, currentDirection).
C2_HostShowsRecordedPair ==
  currentAnimation # NULL =>
    RegisteredFrames(animations, currentAnimation, currentDirection) = <<textures>>

\* the frame index the host displays
HostFrame == hostCurrentFrame(Self)

\* the step is a changeAnimation call, with the arguments its record keeps
IsChangeAnimation ==
  /\ lastCall'.op = "changeAnimation"
  /\ ChangeAnimation(lastCall'.name, lastCall'.direction)

\* the step is a changeDirection call
IsChangeDirection ==
  /\ lastCall'.op = "changeDirection"
  /\ ChangeDirection(lastCall'.direction)

IsGetAvailableDirections ==
  /\ lastCall'.op = "getAvailableDirections"
  /\ GetAvailableDirections(lastCall'.name)

\* the step is a call of the interface, not a tick of the host's clock
IsCall == ~Tick

\* C3: changeAnimation with a name that is not registered changes nothing:
\* the recorded pair, the registry and the host's sequence, speed, frame index
\* and play/pause flag are the same after the call, and no host call is made.
C3_UnknownNameChangesNothing ==
  [][(IsChangeAnimation /\ ~HasKey(animations, lastCall'.name))
       => (UNCHANGED stateVars /\ lastCall'.locals.calls = <<>>)]_vars

\* an unknown name was asked for while an animation was active
C3_Witness ==
  /\ lastCall.op = "changeAnimation"
  /\ lastCall.locals.path = "unknown"
  /\ currentAnimation # NULL

\* C4: when the changeAnimation code performs a real change from displayed
\* frame k, the frame index right after the call is min(k, L - 1), L the length
\* of the target's sequence for the resolved direction.
C4_FrameIsClamped ==
  [][(IsCall /\ lastCall'.locals.path = "changed" /\ HostFrame # NaN)
       => LET k == HostFrame
              L == Len(RegisteredFrames(animations', TargetName,
                                        lastCall'.locals.resolved)[1])
          IN  HostFrame' = (IF k < L - 1 THEN k ELSE L - 1)]_vars

\* a switch from the last frame of a longer sequence landed on the last frame
\* of a shorter one, which is not frame 0
C4_Witness ==
  /\ lastCall.op = "changeAnimation"
  /\ lastCall.locals.path = "changed"
  /\ lastCall.locals.currentFrame = MaxLen - 1
  /\ Len(textures) = MaxLen - 1
  /\ HostFrame = Len(textures) - 1
  /\ HostFrame > 0

\* C5: a changeAnimation call that resolves to the recorded pair makes no host
\* call and changes nothing; the second of two consecutive calls with the same
\* arguments changes nothing (and makes no host call when the first returned).
C5_SamePairIsNoOp ==
  [][IsChangeAnimation =>
       /\ (/\ HasKey(animations, lastCall'.name)
           /\ lastCall'.name = currentAnimation
           /\ resolveDirection(Self, Get(animations, lastCall'.name),
                               lastCall'.direction) = currentDirection)
            => (UNCHANGED stateVars /\ lastCall'.locals.calls = <<>>)
       /\ (/\ lastCall.op = "changeAnimation"
           /\ lastCall.name = lastCall'.name
           /\ lastCall.direction = lastCall'.direction)
            => /\ UNCHANGED stateVars
               /\ lastCall.error = "none" => lastCall'.locals.calls = <<>>]_vars

\* a call was a no-op although its direction argument differs from the
\* recorded facing: the fallback resolved it to the recorded pair
C5_Witness ==
  /\ lastCall.op = "changeAnimation"
  /\ lastCall.locals.path = "noop"
  /\ lastCall.direction # NULL
  /\ lastCall.direction # currentDirection

\* C6: on a registered name an omitted direction resolves to currentDirection,
\* a direction the entry lacks is replaced by the entry's first key, and the
\* call then succeeds with currentDirection a key of the target's mapping.
C6_FallbackSucceeds ==
  [][(IsChangeAnimation /\ HasKey(animations, lastCall'.name)) =>
       LET name == lastCall'.name
           m == Get(animations, name).textures
           d == IF lastCall'.direction = NULL THEN currentDirection
                ELSE lastCall'.direction
           resolved == IF HasKey(m, d) THEN d ELSE FirstKey(m)
       IN  /\ lastCall'.locals.resolved = resolved
           /\ lastCall'.error = "none"
           /\ currentAnimation' = name
           /\ currentDirection' = resolved
           /\ HasKey(m, currentDirection')]_vars

\* C7: after changeAnimation, changeDirection and addAnimation the host is
\* playing iff it was playing just before the call.
C7_PlayFlagPreserved ==
  [][(IsCall /\ lastCall'.op \in {"changeAnimation", "changeDirection", "addAnimation"})
       => playing' = playing]_vars

\* C8: every changeAnimation call is atomic: afterwards either the host shows
\* the target sequence and the recorded pair is the target, or the host and
\* the recorded state are all unchanged.
C8_ChangeAnimationAtomic ==
  [][IsChangeAnimation =>
       \/ /\ currentAnimation' = lastCall'.name
          /\ currentDirection' = lastCall'.locals.resolved
          /\ RegisteredFrames(animations, lastCall'.name, currentDirection')
               = <<textures'>>
       \/ UNCHANGED stateVars]_vars

\* C9: currentAnimation is null exactly while the registry is empty.
C9_NullOnlyWhileEmpty ==
  /\ Len(animations) = 0 => currentAnimation = NULL
  /\ Len(animations) > 0 => currentAnimation # NULL

\* C10: changeDirection(d) has exactly the effect of
\* changeAnimation(currentAnimation, d) when an animation is active, so it
\* never changes currentAnimation, and changes nothing when none is active.
C10_ChangeDirectionIsChangeAnimation ==
  [][IsChangeDirection =>
       IF currentAnimation # NULL
       THEN LET r == changeAnimation(Self, currentAnimation, lastCall'.direction)
            IN  /\ [Self' EXCEPT !.locals = lastCall'.locals] = r.self
                /\ lastCall'.error = r.error
                /\ currentAnimation' = currentAnimation
       ELSE UNCHANGED stateVars /\ lastCall'.locals.calls = <<>>]_vars

\* a direction change on an active animation swapped the host's sequence
C10_Witness ==
  /\ lastCall.op = "changeDirection"
  /\ lastCall.locals.path = "changed"
  /\ currentDirection = lastCall.direction


(***************************************************************************)
(* The slicer                                                              *)
(***************************************************************************)

\* the slicer has returned
Sliced == sliceResult # <<>>

SliceImage == sliceArgs.baseTexture

\* every region of a direction mapping
Regions(textureData) ==
  UNION {{textureData[i].val[c] : c \in 1..Len(textureData[i].val)} :
         i \in 1..Len(textureData)}

\* the image has more rows than the call has labels
MoreRowsThanLabels ==
  (Len(sliceArgs.directions) + 1) * sliceArgs.frameHeight <= SliceImage.height

\* the image is exactly columns frames wide and one frame high per label
ExactSize(columns) ==
  /\ SliceImage.width = sliceArgs.frameWidth * columns
  /\ SliceImage.height = sliceArgs.frameHeight * Len(sliceArgs.directions)

PairwiseDistinct(seq) ==
  \A i, j \in 1..Len(seq) : seq[i] = seq[j] => i = j

\* len(directionLabels) keys, and the key of row r holds columns regions in
\* column order, the c-th being (c*frameWidth, r*frameHeight, frameWidth, frameHeight)
RoundTrip(columns) ==
  LET textureData == sliceResult[1].textureData
      labels == sliceArgs.directions
  IN  /\ Len(textureData) = Len(labels)
      /\ \A r \in 0..(Len(labels) - 1) :
           /\ HasKey(textureData, labels[r + 1])
           /\ Get(textureData, labels[r + 1]) =
                [c \in 1..columns |->
                   [source |-> SliceImage.source,
                    x |-> (c - 1) * sliceArgs.frameWidth,
                    y |-> r * sliceArgs.frameHeight,
                    width |-> sliceArgs.frameWidth,
                    height |-> sliceArgs.frameHeight]]

\* C15: for every image and all positive frame sides the slicer returns
\* frameCount = floor(image.width / frameWidth), and every region it produces
\* lies fully inside the image
C15_RegionsInsideImage ==
  Sliced =>
    /\ sliceResult[1].frameCount * sliceArgs.frameWidth <= SliceImage.width
    /\ SliceImage.width < (sliceResult[1].frameCount + 1) * sliceArgs.frameWidth
    /\ \A t \in Regions(sliceResult[1].textureData) :
         /\ t.x >= 0 /\ t.y >= 0
         /\ t.x + sliceArgs.frameWidth <= SliceImage.width
         /\ t.y + sliceArgs.frameHeight <= SliceImage.height

\* an image with a remainder on both sides is cut into several columns and rows
C15_Witness ==
  /\ Sliced
  /\ SliceImage.width % sliceArgs.frameWidth # 0
  /\ SliceImage.height % sliceArgs.frameHeight # 0
  /\ \E t \in Regions(sliceResult[1].textureData) : t.x > 0 /\ t.y > 0

\* C16 as stated: an image of exact size frameWidth*N by
\* frameHeight*len(directionLabels) yields, for every label list, exactly
\* len(directionLabels) keys, directionLabels[r] holding the N regions of row r
\* in column order
C16_RoundTripForEveryLabelList ==
  \A N \in 0..MaxImageSide : (Sliced /\ ExactSize(N)) => RoundTrip(N)

\* C16 amended: the same for every label list whose labels are pairwise
\* distinct
C16_RoundTripForDistinctLabels ==
  \A N \in 0..MaxImageSide :
    (Sliced /\ ExactSize(N) /\ PairwiseDistinct(sliceArgs.directions))
      => RoundTrip(N)

\* an exact image of two columns and four labelled rows has been sliced
C16_Witness ==
  /\ Sliced /\ ExactSize(2)
  /\ sliceArgs.directions = StandardDirections
  /\ Len(sliceResult[1].textureData) = 4

\* C17: when the image has more rows than there are labels, the rows beyond
\* the label list are dropped: every key is one of the labels and no region
\* comes from a row with index >= len(directionLabels)
C17_ExtraRowsDropped ==
  (Sliced /\ MoreRowsThanLabels) =>
    /\ \A i \in 1..Len(sliceResult[1].textureData) :
         \E r \in 1..Len(sliceArgs.directions) :
           sliceResult[1].textureData[i].key = sliceArgs.directions[r]
    /\ \A t \in Regions(sliceResult[1].textureData) :
         t.y < Len(sliceArgs.directions) * sliceArgs.frameHeight


(***************************************************************************)
(* The factory                                                             *)
(***************************************************************************)

Returned == pc = "returned"

ConfiguredNames == Keys(animationConfigs)

FailedNames == [i \in 1..Len(loadResults.failed) |-> loadResults.failed[i].name]

\* how often a name occurs in a list
Occurrences(seq, name) == Cardinality({i \in 1..Len(seq) : seq[i] = name})

Range(seq) == {seq[i] : i \in 1..Len(seq)}

\* C11: a failed load never aborts the batch: while names remain the factory
\* is still in its loop, the names are requested one after the other until
\* all of them have been, and every name whose load succeeded is registered
C11_FailureNeverAbortsBatch ==
  /\ Len(responses) < Len(animationConfigs) => pc \in {"loop", "awaiting"}
  /\ requested = SubSeq(ConfiguredNames, 1, Len(requested))
  /\ Returned => requested = ConfiguredNames
  /\ \A i \in 1..Len(responses) :
       responses[i].loaded => HasKey(animations, responses[i].name)

\* the first load failed, the second succeeded and its name is registered
C11_Witness ==
  /\ Returned /\ Len(responses) = 2
  /\ ~responses[1].loaded /\ responses[2].loaded
  /\ HasKey(animations, responses[2].name)
  /\ ~HasKey(animations, responses[1].name)

\* C12: when the factory returns, total is the number of configured names
\* and every configured name is exactly once in exactly one of the succeeded
\* and the failed list, which hold nothing else
C12_EveryNameAttributedOnce ==
  Returned =>
    /\ loadResults.total = Len(animationConfigs)
    /\ \A name \in Range(ConfiguredNames) :
         Occurrences(loadResults.successful, name)
           + Occurrences(FailedNames, name) = 1
    /\ Len(loadResults.successful) + Len(loadResults.failed) = loadResults.total

\* two names, one in each list
C12_Witness ==
  /\ Returned /\ loadResults.total = 2
  /\ Len(loadResults.successful) = 1 /\ Len(loadResults.failed) = 1

\* C13: when the factory returns, the names registered in the controller are
\* the names of the succeeded list, and no failed name is registered
C13_RegistryIsSucceeded ==
  Returned =>
    /\ Range(Keys(animations)) = Range(loadResults.successful)
    /\ \A name \in Range(FailedNames) : ~HasKey(animations, name)

\* C14: provided every request is answered, the factory eventually returns
\* the controller and loadResults and no error leaves it, whatever the
\* outcome of each load
C14_FactoryReturns == <>Returned /\ [](pc # "threw")

\* the factory has returned after a success, a rejected load and an error
\* caught from registering
C14_Witness ==
  /\ Returned
  /\ \E i \in 1..Len(loadResults.failed) : loadResults.failed[i].error = "load"
  /\ \E i \in 1..Len(responses) :
       responses[i].loaded /\ responses[i].name \in Range(FailedNames)

\* C18: no direction is stored with an empty sequence, neither in what the
\* slicer returned nor in a registry entry the factory built from it
C18_NoEmptySequenceStored ==
  /\ Sliced => \A i \in 1..Len(sliceResult[1].textureData) :
                 Len(sliceResult[1].textureData[i].val) >= 1
  /\ \A e \in 1..Len(animations) :
       \A i \in 1..Len(animations[e].val.textures) :
         Len(animations[e].val.textures[i].val) >= 1

\* C19: the factory never registers an animation whose slice result has
\* frameCount = 0 or an empty direction mapping
C19_ZeroFrameCountNotRegistered ==
  \A e \in 1..Len(animations) :
    /\ animations[e].val.frameCount # 0
    /\ animations[e].val.textures # <<>>


(***************************************************************************)
(* Queries                                                                 *)
(***************************************************************************)

\* C20: getAvailableDirections(name) returns the direction labels of the
\* entry's mapping in insertion order when name is registered and the empty
\* sequence when it is not, and changes neither the registry, the recorded
\* state nor the host
C20_DirectionsOfEntry ==
  [][IsGetAvailableDirections =>
       /\ lastCall'.returned =
            IF HasKey(animations, lastCall'.name)
            THEN Keys(Get(animations, lastCall'.name).textures)
            ELSE <<>>
       /\ UNCHANGED stateVars]_vars

\* the query has listed two labels of an entry that is not the only one
C20_Witness ==
  /\ lastCall.op = "getAvailableDirections"
  /\ lastCall.returned = <<"up", "down">>
  /\ Len(animations) = 2


\* requests issued and not yet answered
Outstanding == Len(requested) - Len(responses)

NamesWithoutSpeed ==
  {animationConfigs[i].key : i \in {j \in 1..Len(animationConfigs) :
                                      animationConfigs[j].val.speed = <<>>}}

\* C22: an animation registered without a speed has speed 0.15 in the
\* registry, and 0.15 is the host's playback speed once the character has
\* been switched to it
C22_DefaultSpeed ==
  \A name \in NamesWithoutSpeed :
    /\ HasKey(animations, name) => Get(animations, name).speed = DefaultSpeed
    /\ currentAnimation = name => animationSpeed = DefaultSpeed

\* the character was switched from an animation with its own speed to one
\* registered without a speed
C22_Witness ==
  /\ Len(animations) = 2
  /\ lastCall.op = "changeAnimation" /\ lastCall.locals.path = "changed"
  /\ currentAnimation \in NamesWithoutSpeed
  /\ animations[1].val.speed # DefaultSpeed
  /\ animationSpeed = DefaultSpeed


\* the step is an addAnimation call
IsAddAnimation == lastCall'.op = "addAnimation" /\ ~Tick

\* the registry without the entry of name, in order
Without(reg, name) == SelectSeq(reg, LAMBDA e : e.key # name)

\* C23: addAnimation(name, ...) writes only the registry entry of name: the
\* other entries are unchanged, and when an animation is already active the
\* recorded pair and the host's sequence, speed, frame index and play/pause
\* flag are unchanged
C23_AddAnimationWritesOwnEntry ==
  [][IsAddAnimation =>
       /\ HasKey(animations', lastCall'.name)
       /\ Without(animations', lastCall'.name) = Without(animations, lastCall'.name)
       /\ currentAnimation # NULL =>
            /\ UNCHANGED <<currentAnimation, currentDirection>>
            /\ UNCHANGED hostVars
            /\ lastCall'.locals.calls = <<>>]_vars

\* a second name was registered while the first was playing past frame 0
C23_Witness ==
  /\ lastCall.op = "addAnimation" /\ lastCall.locals.path = "registered"
  /\ Len(animations) = 2
  /\ currentAnimation # lastCall.name
  /\ HostFrame > 0 /\ playing

\* C24: registry entries are immutable after registration: changeAnimation,
\* changeDirection, pause, play, getAvailableAnimations,
\* getAvailableDirections and the host's clock never add, remove or modify
\* an entry; the registry changes only in an addAnimation call, and there
\* only under the name registered
C24_RegistryChangesOnlyByAddAnimation ==
  [][/\ animations' # animations => lastCall'.op = "addAnimation"
     /\ lastCall'.op \in {"changeAnimation", "changeDirection", "pause", "play",
                          "getAvailableAnimations", "getAvailableDirections"}
          => animations' = animations]_vars

\* a transition between two registered entries has been carried out and both
\* entries are as they were registered
C24_Witness ==
  /\ lastCall.op = "changeAnimation" /\ lastCall.locals.path = "changed"
  /\ Len(animations) = 2
  /\ \A e \in 1..Len(animations) :
       animations[e].val.directions = Keys(animations[e].val.textures)


\* the step carried out the swap of changeAnimation (lines 225-260), called
\* directly, through changeDirection or by the first addAnimation
IsRealChange == IsCall /\ lastCall'.locals.path = "changed"

\* C25: after every changeAnimation call that performs a real change the
\* host's playback speed is the speed of the target entry and the host's
\* frame sequence is the target entry's sequence for the resolved direction
C25_HostTakesTargetSequenceAndSpeed ==
  [][IsRealChange =>
       /\ animationSpeed' = Get(animations', TargetName).speed
       /\ <<textures'>> = RegisteredFrames(animations', TargetName,
                                           lastCall'.locals.resolved)]_vars

\* a switch to an entry whose speed differs from the speed of another entry
C25_Witness ==
  /\ lastCall.op = "changeAnimation" /\ lastCall.locals.path = "changed"
  /\ Len(animations) = 2
  /\ animations[1].val.speed # animations[2].val.speed
  /\ animationSpeed = Get(animations, currentAnimation).speed
  /\ animationSpeed # HostDefaultSpeed

\* C26: the frame index changeAnimation seeks the host to is in range:
\* 0 <= targetFrame <= L - 1, L the length of the new active sequence, for
\* every registered entry and every reachable state
C26_TargetFrameInRange ==
  [][IsRealChange =>
       LET L == Len(textures')
           targetFrame == targetFrameOf(lastCall'.locals.currentFrame, L)
       IN  0 <= targetFrame /\ targetFrame <= L - 1]_vars

\* every direction sequence of the entry has the same length
EqualLengths(entry) ==
  \A i, j \in 1..Len(entry.textures) :
    Len(entry.textures[i].val) = Len(entry.textures[j].val)

\* C29: a transition between two sequences of the same length leaves the
\* host's frame index as it was, and changeDirection on an entry whose
\* direction sequences all have the same length never changes the displayed
\* frame index
C29_SameLengthKeepsFrame ==
  [][/\ (IsRealChange /\ Len(textures') = Len(textures))
          => HostFrame' = HostFrame
     /\ (/\ IsChangeDirection
         /\ currentAnimation # NULL
         /\ HasKey(animations, currentAnimation)
         /\ EqualLengths(Get(animations, currentAnimation)))
          => HostFrame' = HostFrame]_vars

\* the part of C29 that concerns calls that return: changeDirection on an
\* entry of equal lengths returns with the frame index it found
C29_ReturningChangeDirectionKeepsFrame ==
  [][(/\ IsChangeDirection
      /\ lastCall'.error = "none"
      /\ currentAnimation # NULL
      /\ HasKey(animations, currentAnimation)
      /\ EqualLengths(Get(animations, currentAnimation)))
       => HostFrame' = HostFrame]_vars


\* C28: every entry the factory registers has direction sequences of one
\* length, and that length is the entry's frameCount
C28_SequencesHaveFrameCountLength ==
  \A e \in 1..Len(animations) :
    \A i \in 1..Len(animations[e].val.textures) :
      Len(animations[e].val.textures[i].val) = animations[e].val.frameCount

\* the factory has registered a sheet of four rows and a sheet of one
\* shorter row
C28_Witness ==
  /\ Returned /\ Len(animations) = 2
  /\ \E e \in 1..2 : /\ Len(animations[e].val.textures) = 4
                     /\ animations[e].val.frameCount = MaxLen
  /\ \E e \in 1..2 : /\ Len(animations[e].val.textures) = 1
                     /\ animations[e].val.frameCount = MaxLen - 1


\* the call recorded in c was changeAnimation(A, d) with d given, A
\* registered in reg without d, and a first direction to fall back to
FellBack(c, reg) ==
  /\ c.op = "changeAnimation"
  /\ c.direction # NULL
  /\ HasKey(reg, c.name)
  /\ ~HasKey(Get(reg, c.name).textures, c.direction)
  /\ Len(Get(reg, c.name).textures) > 0

\* the direction such a call falls back to
FallbackOf(c, reg) == FirstKey(Get(reg, c.name).textures)

\* C30: a direction fallback overwrites the recorded facing: after
\* changeAnimation(A, d) falls back to f, currentDirection = f, and a
\* following changeAnimation(B) with the direction omitted resolves against f
\* whenever B has f, whatever else B has
C30_FallbackOverwritesFacing ==
  [][IsChangeAnimation =>
       /\ FellBack(lastCall', animations)
            => currentDirection' = FallbackOf(lastCall', animations)
       /\ (/\ FellBack(lastCall, animations)
           /\ lastCall'.direction = NULL
           /\ HasKey(animations, lastCall'.name)
           /\ HasKey(Get(animations, lastCall'.name).textures,
                     FallbackOf(lastCall, animations)))
            => lastCall'.locals.resolved = FallbackOf(lastCall, animations)]_vars

\* the same for fallback calls that return: the facing is overwritten and the
\* next call without a direction resolves against it
C30_ReturningFallbackOverwritesFacing ==
  [][IsChangeAnimation =>
       /\ (FellBack(lastCall', animations) /\ lastCall'.error = "none")
            => currentDirection' = FallbackOf(lastCall', animations)
       /\ (/\ FellBack(lastCall, animations) /\ lastCall.error = "none"
           /\ lastCall'.direction = NULL
           /\ HasKey(animations, lastCall'.name)
           /\ HasKey(Get(animations, lastCall'.name).textures,
                     FallbackOf(lastCall, animations)))
            => lastCall'.locals.resolved = FallbackOf(lastCall, animations)]_vars


(***************************************************************************)
(* The order of the statements of one transition                           *)
(***************************************************************************)

Executed(what) == \E i \in 1..Len(lastCall.done) : lastCall.done[i] = what

\* the stages of the swap: reads, replacing sequence and speed, seeking,
\* writing the pair; 0 for the statements around them
Stage(what) ==
  CASE what \in {"readPlaying", "readFrame"} -> 1
    [] what \in {"setTextures", "setSpeed"} -> 2
    [] what = "seek" -> 3
    [] what \in {"writeAnimation", "writeDirection"} -> 4
    [] OTHER -> 0

\* the call found a real change and has started the swap
InTransition == Executed("compare") /\ lastCall.locals.path # "noop"

\* the statement-level run ends as the call of Spec does: same controller,
\* same error
TransitionAgreesWithCall ==
  lastCall.at \in {"returned", "threw"} =>
    LET r == changeAnimation(lastCall.found, lastCall.name, lastCall.asked)
    IN  /\ r.error = lastCall.error
        /\ [r.self EXCEPT !.locals = NoLocals] = Self
        /\ r.self.locals = lastCall.locals

\* C27: within one real transition the host's play/pause flag and frame
\* index are read first, as the host was before the call, then sequence and
\* speed are replaced, then the host is seeked, and only then is the pair
\* written; whenever the recorded pair is the target, the host holds the
\* target's sequence and speed and has been seeked
C27_TransitionOrder ==
  /\ \A i, j \in 1..Len(lastCall.done) :
       (i < j /\ Stage(lastCall.done[i]) > 0 /\ Stage(lastCall.done[j]) > 0)
         => Stage(lastCall.done[i]) <= Stage(lastCall.done[j])
  /\ Executed("readFrame") =>
       /\ lastCall.locals.wasPlaying = lastCall.found.playing
       /\ lastCall.locals.currentFrame = hostCurrentFrame(lastCall.found)
  /\ (textures # lastCall.found.textures
        \/ animationSpeed # lastCall.found.animationSpeed
        \/ currentTime # lastCall.found.currentTime
        \/ playing # lastCall.found.playing)
       => Executed("readPlaying") /\ Executed("readFrame")
  /\ (currentAnimation # lastCall.found.currentAnimation
        \/ currentDirection # lastCall.found.currentDirection)
       => /\ Executed("setTextures") /\ Executed("setSpeed") /\ Executed("seek")
  /\ (/\ InTransition
      /\ currentAnimation = lastCall.name
      /\ currentDirection = lastCall.direction)
       => /\ <<textures>> = Lookup(Entry.textures, lastCall.direction)
          /\ animationSpeed = Entry.speed
          /\ HostFrame = lastCall.targetFrame
          /\ playing = lastCall.locals.wasPlaying

\* between lines 259 and 260: the animation is written, the direction not
\* yet, and the host already shows the target's sequence from a frame past 0
C27_Witness ==
  /\ lastCall.at = "writeDirection"
  /\ currentAnimation = lastCall.name
  /\ currentDirection # lastCall.direction
  /\ <<textures>> = Lookup(Entry.textures, lastCall.direction)
  /\ lastCall.found.textures # textures
  /\ HostFrame > 0


(***************************************************************************)
(* What the factory hands out                                              *)
(***************************************************************************)

\* the configured names that are in list, in configuration order
InConfigOrder(list) == SelectSeq(ConfiguredNames, LAMBDA n : n \in Range(list))

\* C31: when the factory returns, currentAnimation is the first name, in the
\* iteration order of the configuration, whose load and registration
\* succeeded, null if none did, and the succeeded and the failed list name
\* their members in that same order
C31_FirstSucceededIsCurrent ==
  Returned =>
    /\ loadResults.successful = InConfigOrder(loadResults.successful)
    /\ FailedNames = InConfigOrder(FailedNames)
    /\ currentAnimation = IF Len(loadResults.successful) = 0 THEN NULL
                          ELSE loadResults.successful[1]

\* the first name was loaded but failed in registration, the second
\* succeeded and is the current animation
C31_Witness ==
  /\ Returned /\ Len(ConfiguredNames) = 2
  /\ responses[1].loaded
  /\ FailedNames = <<ConfiguredNames[1]>>
  /\ loadResults.successful = <<ConfiguredNames[2]>>
  /\ currentAnimation = ConfiguredNames[2]

\* both names succeeded; the first configured is current
C31_BothSucceeded ==
  /\ Returned
  /\ Len(loadResults.successful) = 2
  /\ currentAnimation = ConfiguredNames[1]

(***************************************************************************)
(* When the host is shown                                                  *)
(***************************************************************************)

\* the host is shown exactly when the registry has an entry
ShownIffRegistered == visible <=> Len(animations) > 0

\* C32: in every reachable state the host is visible iff the registry is
\* non-empty (addAnimation has stored an entry); no operation makes a visible
\* host invisible again; a changeAnimation or a changeDirection on a
\* controller with an empty registry does not make the host visible
C32_VisibleIffRegistered ==
  [][ /\ ShownIffRegistered
      /\ ShownIffRegistered'
      /\ visible => visible'
      /\ ((IsChangeAnimation \/ IsChangeDirection) /\ Len(animations) = 0)
           => ~visible' ]_vars

\* the first addAnimation stored its entry and showed the host although the
\* transition it started threw, so no animation is current
C32_Witness ==
  /\ lastCall.op = "addAnimation"
  /\ lastCall.error # "none"
  /\ Len(animations) = 1
  /\ currentAnimation = NULL
  /\ visible

\* a changeAnimation on a fresh controller left the host hidden
C32_FreshStaysHidden ==
  /\ lastCall.op = "changeAnimation"
  /\ Len(animations) = 0
  /\ ~visible

====
